---- MODULE Spec2Model ----
(***************************************************************************)
(* Model of the spawner supervisor (src/src/main.rs): main, setup's        *)
(* ctrlc handler, start, and the poll / restart / shutdown loop of behold. *)
(*                                                                         *)
(* Two threads act on the state: the main thread (start, then behold) and  *)
(* the ctrlc handler thread, which stores true into HANDBRAKE.  The        *)
(* environment makes supervised processes exit.  The main thread is split  *)
(* where it reads or writes what the others write or read: the load of the *)
(* flag, the sleep, the lock acquisitions, and per handle the try_wait     *)
(* with everything that follows it under the same guards (take, re-spawn,  *)
(* println), which touches only state the main thread owns.                *)
(*                                                                         *)
(* A process that has ended is a zombie until try_wait reaps it; nothing   *)
(* reads its exit status before that, so the status (code 0, other code,   *)
(* signal) is drawn when try_wait returns it.                              *)
(*                                                                         *)
(* Environment assumptions: Child::try_wait on a child that has not been   *)
(* reaped and Child::kill on such a child do not return Err (waitpid and   *)
(* kill on one's own un-reaped child succeed), so the panic arm at line    *)
(* 184 and the unwrap at line 137 are not taken.                           *)
(***************************************************************************)
EXTENDS Integers, FiniteSets, Sequences, TLC

\* Bounds of the model.
NumApps == 2      \* number of [[app]] entries in the manifest
MaxPid == 3       \* OS processes that can be created in one run
MaxSignals == 2   \* SIGINT deliveries in one run

Apps == 1..NumApps
Pids == 1..MaxPid

VARIABLES
    HANDBRAKE,        \* static HANDBRAKE: the AtomicBool
    delivered,        \* number of signals the ctrlc handler has been run for
    pc,               \* position of the main thread
    i,                \* index into apps (start) or cmds (behold) of the current element
    appRestart,       \* App.restart of each app: "none" | "true" | "false"
    cfgInterval,      \* Config.interval: NoValue for None, else a u64 (four 16-bit limbs, low first)
    sleepMs,          \* behold's `interval`: NoValue before line 130 ran, else a u64
    command,          \* Cmd.command: 0 before start built it, else the app it launches
    child,            \* Cmd.child: 0 for None, else the pid of Some(Child)
    locks,            \* mutexes held by the main thread: <<handle, "child"|"command">>
    polled,           \* per handle, the result of its last try_wait call
    printed,          \* per handle, its last status line: -1 none yet, 0 "not running", else the pid
    status,           \* OS: per pid "unborn" | "alive" | "exited" | "reaped"
    owner,            \* OS: per pid, the handle whose command created it (0 if unborn)
    nextPid,          \* OS: next pid handed out
    termReq,          \* OS: pids that were sent a kill by the supervisor
    passesAfterFlag   \* poll passes begun while HANDBRAKE was already true

vars == <<HANDBRAKE, delivered, pc, i, appRestart, cfgInterval, sleepMs, command, child, locks,
          polled, printed, status, owner, nextPid, termReq, passesAfterFlag>>

osVars == <<status, owner, nextPid, termReq>>
loopVars == <<pc, i, command, child, locks, polled, printed, passesAfterFlag>>

RestartOpts == {"none", "true", "false"}
\* ExitStatus as the match at lines 161-179 tells it apart.
ExitKinds == {"exit0", "exitErr", "signaled"}
PollPcs == {"lock", "poll"}
KillPcs == {"klock", "ksend"}
AllPcs == {"start", "interval", "check", "sleep", "done", "error", "panic"}
            \cup PollPcs \cup KillPcs

\* u64 values are kept as NumLimbs limbs of LimbBase, low limb first.
LimbBase == 65536
NumLimbs == 4
U64 == [1..NumLimbs -> 0..(LimbBase - 1)]

\* The literals of line 130.
DefaultIntervalMs == 5000
MsPerSec == 1000

\* x * k for a u64 x and a small k, as NumLimbs limbs followed by the carry
\* out of the top limb (0 when the product fits in 64 bits).
MulWide(x, k) ==
    LET p1 == x[1] * k
        p2 == x[2] * k + (p1 \div LimbBase)
        p3 == x[3] * k + (p2 \div LimbBase)
        p4 == x[4] * k + (p3 \div LimbBase)
    IN  <<p1 % LimbBase, p2 % LimbBase, p3 % LimbBase, p4 % LimbBase,
          p4 \div LimbBase>>

\* The low 64 bits of a wide product.
Low64(w) == [k \in 1..NumLimbs |-> w[k]]

\* A small number as a u64.
\* Option::None, and a local that is not yet bound.
NoValue == <<>>

ToU64(n) == [k \in 1..NumLimbs |-> IF k = 1 THEN n ELSE 0]

\* The intervals a manifest is tried with: none, and u64 values whose limbs
\* are smallest, one, or largest (the top limb stays below 2^15, a TOML
\* integer being at most i64::MAX), 2 seconds, and the largest value whose
\* product with 1000 fits in 64 bits (18446744073709551) and its successor.
LimbSamples == {0, 1, LimbBase - 1}
TopLimbSamples == {0, 1, (LimbBase \div 2) - 1}
LargestFitting == <<42991, 19398, 35127, 65>>
SmallestOverflowing == <<42992, 19398, 35127, 65>>
IntervalInputs ==
    {NoValue, ToU64(2), LargestFitting, SmallestOverflowing}
    \cup {<<a, b, c, d>> : a \in LimbSamples, b \in LimbSamples,
                            c \in LimbSamples, d \in TopLimbSamples}

TypeOK ==
    /\ HANDBRAKE \in BOOLEAN
    /\ delivered \in 0..MaxSignals
    /\ pc \in AllPcs
    /\ i \in Apps
    /\ appRestart \in [Apps -> RestartOpts]
    /\ cfgInterval = NoValue \/ cfgInterval \in U64
    /\ sleepMs = NoValue \/ sleepMs \in U64
    /\ command \in [Apps -> 0..NumApps]
    /\ child \in [Apps -> 0..MaxPid]
    /\ locks \subseteq (Apps \X {"child", "command"})
    /\ polled \in [Apps -> {"unpolled", "alive"} \cup ExitKinds]
    /\ printed \in [Apps -> -1..MaxPid]
    /\ status \in [Pids -> {"unborn", "alive", "exited", "reaped"}]
    /\ owner \in [Pids -> 0..NumApps]
    /\ nextPid \in 1..(MaxPid + 1)
    /\ termReq \subseteq Pids
    /\ passesAfterFlag \in 0..2

\* Variant: app.restart.unwrap_or(false).
RestartFlagDefaultFalse(h) == appRestart[h] = "true"

\* Variant: the restart flag of the app is not consulted.
RestartFlagIgnored(h) == TRUE

\* app.restart.unwrap_or(true)
RestartFlag(h) == appRestart[h] # "false"

\* The live processes the OS holds that were launched for handle h.
LiveOf(h) == {p \in Pids : owner[p] = h /\ status[p] = "alive"}

Init ==
    /\ HANDBRAKE = FALSE
    /\ delivered = 0
    /\ pc = "start"
    /\ i = 1
    /\ appRestart \in [Apps -> RestartOpts]
    /\ cfgInterval = NoValue
    /\ sleepMs = NoValue
    /\ command = [h \in Apps |-> 0]
    /\ child = [h \in Apps |-> 0]
    /\ locks = {}
    /\ polled = [h \in Apps |-> "unpolled"]
    /\ printed = [h \in Apps |-> -1]
    /\ status = [p \in Pids |-> "unborn"]
    /\ owner = [p \in Pids |-> 0]
    /\ nextPid = 1
    /\ termReq = {}
    /\ passesAfterFlag = 0

----------------------------------------------------------------------------
\* The ctrlc handler thread.

\* Variant: the handler also kills every child itself.
SignalKillsChildren ==
    /\ pc \notin {"done", "error", "panic"}
    /\ delivered < MaxSignals
    /\ delivered' = delivered + 1
    /\ HANDBRAKE' = TRUE
    /\ termReq' = termReq \cup {child[h] : h \in {g \in Apps : child[g] # 0}}
    /\ status' = [p \in Pids |->
                    IF p \in termReq' /\ status[p] = "alive" THEN "exited"
                    ELSE status[p]]
    /\ UNCHANGED <<appRestart, cfgInterval, sleepMs, owner, nextPid>>
    /\ UNCHANGED loopVars

\* setup's closure: HANDBRAKE.store(true, SeqCst), once per delivered signal,
\* while the supervisor process exists (main has not returned).
Signal ==
    /\ pc \notin {"done", "error", "panic"}
    /\ delivered < MaxSignals
    /\ delivered' = delivered + 1
    /\ HANDBRAKE' = TRUE
    /\ UNCHANGED <<appRestart, cfgInterval, sleepMs, osVars>>
    /\ UNCHANGED loopVars

----------------------------------------------------------------------------
\* The operating system.

\* A supervised process ends by itself or is killed from outside; it stays
\* a zombie until the supervisor waits for it.  The processes are followed
\* while the supervisor itself runs.
ProcExit ==
    \E p \in Pids :
        /\ pc \notin {"done", "error", "panic"}
        /\ status[p] = "alive"
        /\ status' = [status EXCEPT ![p] = "exited"]
        /\ UNCHANGED <<HANDBRAKE, delivered, appRestart, cfgInterval, sleepMs, owner, nextPid, termReq>>
        /\ UNCHANGED loopVars

\* Variant: the new process is stored in the neighbouring handle.
SpawnOkWrongHandle(h, st) ==
    /\ nextPid <= MaxPid
    /\ status' = [st EXCEPT ![nextPid] = "alive"]
    /\ owner' = [owner EXCEPT ![nextPid] = h]
    /\ nextPid' = nextPid + 1
    /\ child' = [child EXCEPT ![(h % NumApps) + 1] = nextPid]

\* Command::spawn for handle h succeeding, the processes being st before it:
\* a new process with a fresh pid, which becomes the handle's child.
SpawnOk(h, st) ==
    /\ nextPid <= MaxPid
    /\ status' = [st EXCEPT ![nextPid] = "alive"]
    /\ owner' = [owner EXCEPT ![nextPid] = h]
    /\ nextPid' = nextPid + 1
    /\ child' = [child EXCEPT ![h] = nextPid]

\* Child::kill: SIGKILL to the process; a zombie is not affected.
Kill(p) ==
    /\ termReq' = termReq \cup {p}
    /\ status' = [status EXCEPT ![p] = IF @ = "alive" THEN "exited" ELSE @]

----------------------------------------------------------------------------
\* The main thread: start.

\* Variant: an app that fails to launch is skipped and start goes on.
StartAppSkipsFailed ==
    /\ pc = "start"
    /\ \/ /\ SpawnOk(i, status)
          /\ command' = [command EXCEPT ![i] = i]
          /\ UNCHANGED termReq
       \/ UNCHANGED <<command, child, osVars>>
    /\ IF i = NumApps
          THEN pc' = "interval" /\ i' = 1
          ELSE pc' = pc /\ i' = i + 1
    /\ UNCHANGED <<HANDBRAKE, delivered, appRestart, cfgInterval, sleepMs,
                   locks, polled, printed, passesAfterFlag>>

\* Variant: start looks at the flag and stops launching once it is set.
StartAppStopsOnFlag ==
    /\ pc = "start"
    /\ IF HANDBRAKE
          THEN /\ pc' = "interval"
               /\ i' = 1
               /\ UNCHANGED <<command, child, osVars>>
          ELSE \/ /\ SpawnOk(i, status)
                  /\ command' = [command EXCEPT ![i] = i]
                  /\ IF i = NumApps
                        THEN pc' = "interval" /\ i' = 1
                        ELSE pc' = pc /\ i' = i + 1
                  /\ UNCHANGED termReq
               \/ /\ pc' = "error"
                  /\ UNCHANGED <<i, command, child, osVars>>
    /\ UNCHANGED <<HANDBRAKE, delivered, appRestart, cfgInterval, sleepMs,
                   locks, polled, printed, passesAfterFlag>>

\* One iteration of start's loop: build the command, spawn it, push the Cmd;
\* a failure (File::create, spawn) returns Err from start and from main.
StartApp ==
    /\ pc = "start"
    /\ \/ /\ SpawnOk(i, status)
          /\ command' = [command EXCEPT ![i] = i]
          /\ IF i = NumApps
                THEN pc' = "interval" /\ i' = 1
                ELSE pc' = pc /\ i' = i + 1
          /\ UNCHANGED termReq
       \/ /\ pc' = "error"
          /\ UNCHANGED <<i, command, child, osVars>>
    /\ UNCHANGED <<HANDBRAKE, delivered, appRestart, cfgInterval, sleepMs, locks, polled, printed,
                   passesAfterFlag>>

----------------------------------------------------------------------------
\* The main thread: behold.

\* let interval = config.interval.map_or(5000, |x| x * 1000): u64 arithmetic.
\* A product that does not fit in 64 bits panics in a build with overflow
\* checks and wraps in a build without them.
BeholdInterval ==
    /\ pc = "interval"
    /\ IF cfgInterval = NoValue
          THEN sleepMs' = ToU64(DefaultIntervalMs) /\ pc' = "check"
          ELSE LET wide == MulWide(cfgInterval, MsPerSec)
               IN  IF wide[NumLimbs + 1] = 0
                      THEN sleepMs' = Low64(wide) /\ pc' = "check"
                      ELSE \/ sleepMs' = Low64(wide) /\ pc' = "check"
                           \/ sleepMs' = sleepMs /\ pc' = "panic"
    /\ UNCHANGED <<HANDBRAKE, delivered, i, appRestart, cfgInterval, command,
                   child, locks, polled, printed, osVars, passesAfterFlag>>

\* Variant: the test of the flag is negated.
CheckFlagNegated ==
    /\ pc = "check"
    /\ pc' = IF ~HANDBRAKE THEN "klock" ELSE "sleep"
    /\ i' = 1
    /\ UNCHANGED <<HANDBRAKE, delivered, appRestart, cfgInterval, sleepMs, command, child, locks,
                   polled, printed, osVars, passesAfterFlag>>

\* Variant: the flag is consumed when read, HANDBRAKE.swap(false, SeqCst).
CheckFlagSwap ==
    /\ pc = "check"
    /\ pc' = IF HANDBRAKE THEN "klock" ELSE "sleep"
    /\ i' = 1
    /\ HANDBRAKE' = FALSE
    /\ UNCHANGED <<delivered, appRestart, cfgInterval, sleepMs, command, child, locks,
                   polled, printed, osVars, passesAfterFlag>>

\* Top of the loop: HANDBRAKE.load(SeqCst).
CheckFlag ==
    /\ pc = "check"
    /\ pc' = IF HANDBRAKE THEN "klock" ELSE "sleep"
    /\ i' = 1
    /\ UNCHANGED <<HANDBRAKE, delivered, appRestart, cfgInterval, sleepMs, command, child, locks,
                   polled, printed, osVars, passesAfterFlag>>

\* Shutdown pass: child.lock().unwrap() of cmds[i].
KillLock ==
    /\ pc = "klock"
    /\ <<i, "child">> \notin locks
    /\ locks' = locks \cup {<<i, "child">>}
    /\ pc' = "ksend"
    /\ UNCHANGED <<HANDBRAKE, delivered, i, appRestart, cfgInterval, sleepMs, command, child,
                   polled, printed, osVars, passesAfterFlag>>

\* Variant: the break sits inside the for loop, so only the first handle is
\* visited.
KillSendBreakInside ==
    /\ pc = "ksend"
    /\ IF child[i] # 0
          THEN Kill(child[i])
          ELSE UNCHANGED <<termReq, status>>
    /\ locks' = locks \ {<<i, "child">>}
    /\ pc' = "done"
    /\ i' = 1
    /\ UNCHANGED <<HANDBRAKE, delivered, appRestart, cfgInterval, sleepMs, command, child,
                   polled, printed, owner, nextPid, passesAfterFlag>>

\* Variant: child.as_mut().unwrap().kill(), which panics on None.
KillSendUnwrapNone ==
    /\ pc = "ksend"
    /\ IF child[i] # 0
          THEN /\ Kill(child[i])
               /\ locks' = locks \ {<<i, "child">>}
               /\ IF i = NumApps
                     THEN pc' = "done" /\ i' = 1
                     ELSE pc' = "klock" /\ i' = i + 1
          ELSE /\ pc' = "error"
               /\ UNCHANGED <<termReq, status, locks, i>>
    /\ UNCHANGED <<HANDBRAKE, delivered, appRestart, cfgInterval, sleepMs, command, child,
                   polled, printed, owner, nextPid, passesAfterFlag>>

\* Variant: the guard is leaked, the child mutex stays locked.
KillSendKeepsLock ==
    /\ pc = "ksend"
    /\ IF child[i] # 0
          THEN Kill(child[i])
          ELSE UNCHANGED <<termReq, status>>
    /\ IF i = NumApps
          THEN pc' = "done" /\ i' = 1
          ELSE pc' = "klock" /\ i' = i + 1
    /\ UNCHANGED <<HANDBRAKE, delivered, appRestart, cfgInterval, sleepMs,
                   command, child, locks, polled, printed, owner, nextPid,
                   passesAfterFlag>>

\* Shutdown pass: if let Some(child) = child.as_mut() { child.kill().unwrap() },
\* the guard dropped at the end of the body; after the last handle, break
\* and behold returns Ok(()).
KillSend ==
    /\ pc = "ksend"
    /\ IF child[i] # 0
          THEN Kill(child[i])
          ELSE UNCHANGED <<termReq, status>>
    /\ locks' = locks \ {<<i, "child">>}
    /\ IF i = NumApps
          THEN pc' = "done" /\ i' = 1
          ELSE pc' = "klock" /\ i' = i + 1
    /\ UNCHANGED <<HANDBRAKE, delivered, appRestart, cfgInterval, sleepMs, command, child,
                   polled, printed, owner, nextPid, passesAfterFlag>>

\* sleep(Duration::from_millis(interval)) returning; the poll pass begins.
Sleep ==
    /\ pc = "sleep"
    /\ pc' = "lock"
    /\ i' = 1
    /\ passesAfterFlag' = IF HANDBRAKE THEN passesAfterFlag + 1 ELSE passesAfterFlag
    /\ UNCHANGED <<HANDBRAKE, delivered, appRestart, cfgInterval, sleepMs, command, child, locks,
                   polled, printed, osVars>>

\* Poll pass: child.lock().unwrap() then command.lock().unwrap() of cmds[i].
PollLock ==
    /\ pc = "lock"
    /\ <<i, "child">> \notin locks
    /\ <<i, "command">> \notin locks
    /\ locks' = locks \cup {<<i, "child">>, <<i, "command">>}
    /\ pc' = "poll"
    /\ UNCHANGED <<HANDBRAKE, delivered, i, appRestart, cfgInterval, sleepMs, command, child,
                   polled, printed, osVars, passesAfterFlag>>

\* Variant: a clean exit also asks for a restart.
VerdictRestartOnCleanExit(res) ==
    IF res = "alive" THEN <<TRUE, FALSE>> ELSE <<FALSE, TRUE>>

\* Variant: a process that is still running asks for a restart.
VerdictRestartWhileRunning(res) ==
    IF res = "alive" THEN <<TRUE, TRUE>>
    ELSE IF res = "exit0" THEN <<FALSE, FALSE>>
    ELSE <<FALSE, TRUE>>

\* The (running, restart) pair of lines 157-185: (false, false) for a None
\* child, else by the try_wait result.
Verdict(res) ==
    IF res = "nochild" THEN <<FALSE, FALSE>>
    ELSE IF res = "alive" THEN <<TRUE, FALSE>>
    ELSE IF res = "exit0" THEN <<FALSE, FALSE>>
    ELSE <<FALSE, TRUE>>

\* What try_wait can return for the child of handle h: Ok(None) for a live
\* process, Ok(Some(status)) for a zombie; "nochild" when there is no child
\* to ask.
WaitResults(h) ==
    IF child[h] = 0 THEN {"nochild"}
    ELSE IF status[child[h]] = "alive" THEN {"alive"}
    ELSE ExitKinds

\* The line printed at lines 196-204: when the poll said `running`, "running
\* as PID" with the pid of the child as it is then; else "not running" (0).
StatusLine(isRunning, ch) == IF isRunning THEN ch ELSE 0

\* Variant: a failed re-spawn is logged and the pass goes on.
PollBodyIgnoresSpawnError(res) ==
    LET isRunning == Verdict(res)[1]
        reaped == IF res \in ExitKinds
                     THEN [status EXCEPT ![child[i]] = "reaped"]
                     ELSE status
        taken == IF ~isRunning THEN [child EXCEPT ![i] = 0] ELSE child
    IN  /\ polled' = IF res = "nochild" THEN polled
                     ELSE [polled EXCEPT ![i] = res]
        /\ \/ /\ Verdict(res)[2] /\ RestartFlag(i)
              /\ SpawnOk(i, reaped)
           \/ /\ child' = taken
              /\ status' = reaped
              /\ UNCHANGED <<owner, nextPid>>
        /\ printed' = [printed EXCEPT ![i] = StatusLine(isRunning, child'[i])]
        /\ locks' = locks \ {<<i, "child">>, <<i, "command">>}
        /\ IF i = NumApps
              THEN pc' = "check" /\ i' = 1
              ELSE pc' = "lock" /\ i' = i + 1

\* Variant: the child is taken whether or not it is still running.
PollBodyTakesAlways(res) ==
    LET isRunning == Verdict(res)[1]
        reaped == IF res \in ExitKinds
                     THEN [status EXCEPT ![child[i]] = "reaped"]
                     ELSE status
        taken == [child EXCEPT ![i] = 0]
        advance == /\ printed' = [printed EXCEPT
                                        ![i] = StatusLine(isRunning, child'[i])]
                   /\ locks' = locks \ {<<i, "child">>, <<i, "command">>}
                   /\ IF i = NumApps
                         THEN pc' = "check" /\ i' = 1
                         ELSE pc' = "lock" /\ i' = i + 1
    IN  /\ polled' = IF res = "nochild" THEN polled
                     ELSE [polled EXCEPT ![i] = res]
        /\ IF Verdict(res)[2] /\ RestartFlag(i)
              THEN \/ /\ SpawnOk(i, reaped)
                      /\ advance
                   \/ /\ pc' = "error"
                      /\ child' = taken
                      /\ status' = reaped
                      /\ locks' = locks \ {<<i, "child">>, <<i, "command">>}
                      /\ UNCHANGED <<owner, nextPid, i, printed>>
              ELSE /\ child' = taken
                   /\ status' = reaped
                   /\ UNCHANGED <<owner, nextPid>>
                   /\ advance

\* Variant: x.code().unwrap(), which panics for a process killed by a signal.
PollBodyUnwrapsCode(res) ==
    IF res = "signaled"
       THEN /\ pc' = "panic"
            /\ status' = [status EXCEPT ![child[i]] = "reaped"]
            /\ locks' = locks \ {<<i, "child">>, <<i, "command">>}
            /\ UNCHANGED <<polled, printed, child, owner, nextPid, i>>
       ELSE
            LET isRunning == Verdict(res)[1]
                wantRestart == Verdict(res)[2]
                reaped == IF res \in ExitKinds
                             THEN [status EXCEPT ![child[i]] = "reaped"]
                             ELSE status
                taken == IF ~isRunning THEN [child EXCEPT ![i] = 0] ELSE child
                advance == /\ printed' = [printed EXCEPT
                                                ![i] = StatusLine(isRunning, child'[i])]
                           /\ locks' = locks \ {<<i, "child">>, <<i, "command">>}
                           /\ IF i = NumApps
                                 THEN pc' = "check" /\ i' = 1
                                 ELSE pc' = "lock" /\ i' = i + 1
            IN  /\ polled' = IF res = "nochild" THEN polled
                             ELSE [polled EXCEPT ![i] = res]
                /\ IF wantRestart /\ RestartFlag(i)
                      THEN \* let new = command.spawn()?; child.replace(new);
                           \/ /\ SpawnOk(i, reaped)
                              /\ advance
                           \/ /\ pc' = "error"
                              /\ child' = taken
                              /\ status' = reaped
                              /\ locks' = locks \ {<<i, "child">>, <<i, "command">>}
                              /\ UNCHANGED <<owner, nextPid, i, printed>>
                      ELSE /\ child' = taken
                           /\ status' = reaped
                           /\ UNCHANGED <<owner, nextPid>>
                           /\ advance

\* The body of the poll pass for cmds[i] after its locks are taken; the `?`
\* of a failed re-spawn returns from behold, which drops the guards.
PollBody(res) ==
    LET isRunning == Verdict(res)[1]
        wantRestart == Verdict(res)[2]
        \* try_wait returning a status has reaped the process
        reaped == IF res \in ExitKinds
                     THEN [status EXCEPT ![child[i]] = "reaped"]
                     ELSE status
        \* if !running { child.take(); }
        taken == IF ~isRunning THEN [child EXCEPT ![i] = 0] ELSE child
        \* guards dropped, next handle or next cycle
        advance == /\ printed' = [printed EXCEPT
                                        ![i] = StatusLine(isRunning, child'[i])]
                   /\ locks' = locks \ {<<i, "child">>, <<i, "command">>}
                   /\ IF i = NumApps
                         THEN pc' = "check" /\ i' = 1
                         ELSE pc' = "lock" /\ i' = i + 1
    IN  /\ polled' = IF res = "nochild" THEN polled
                     ELSE [polled EXCEPT ![i] = res]
        /\ IF wantRestart /\ RestartFlag(i)
              THEN \* let new = command.spawn()?; child.replace(new);
                   \/ /\ SpawnOk(i, reaped)
                      /\ advance
                   \/ /\ pc' = "error"
                      /\ child' = taken
                      /\ status' = reaped
                      /\ locks' = locks \ {<<i, "child">>, <<i, "command">>}
                      /\ UNCHANGED <<owner, nextPid, i, printed>>
              ELSE /\ child' = taken
                   /\ status' = reaped
                   /\ UNCHANGED <<owner, nextPid>>
                   /\ advance

\* Variant: the flag is also tested after each handle of the poll pass.
PollHandleThenCheckFlag ==
    /\ pc = "poll"
    /\ \E res \in WaitResults(i) :
          IF HANDBRAKE
             THEN /\ polled' = IF res = "nochild" THEN polled
                               ELSE [polled EXCEPT ![i] = res]
                  /\ status' = IF res \in ExitKinds
                                  THEN [status EXCEPT ![child[i]] = "reaped"]
                                  ELSE status
                  /\ child' = IF ~Verdict(res)[1] THEN [child EXCEPT ![i] = 0]
                              ELSE child
                  /\ locks' = locks \ {<<i, "child">>, <<i, "command">>}
                  /\ printed' = [printed EXCEPT
                         ![i] = StatusLine(Verdict(res)[1], child'[i])]
                  /\ pc' = "klock"
                  /\ i' = 1
                  /\ UNCHANGED <<owner, nextPid>>
             ELSE PollBody(res)
    /\ UNCHANGED <<HANDBRAKE, delivered, appRestart, cfgInterval, sleepMs, command, termReq,
                   passesAfterFlag>>

\* Poll pass, lines 157-205 for cmds[i]: try_wait, take, re-spawn, println,
\* then both guards are dropped and the for loop advances; after the last
\* handle the outer loop repeats.
PollHandle ==
    /\ pc = "poll"
    /\ \E res \in WaitResults(i) : PollBody(res)
    /\ UNCHANGED <<HANDBRAKE, delivered, appRestart, cfgInterval, sleepMs, command, termReq,
                   passesAfterFlag>>

\* The steps of the main thread.
Main ==
    \/ StartApp
    \/ BeholdInterval
    \/ CheckFlag
    \/ KillLock
    \/ KillSend
    \/ Sleep
    \/ PollLock
    \/ PollHandle

Next ==
    \/ Signal
    \/ ProcExit
    \/ StartApp
    \/ BeholdInterval
    \/ CheckFlag
    \/ KillLock
    \/ KillSend
    \/ Sleep
    \/ PollLock
    \/ PollHandle

Spec == Init /\ [][Next]_vars

\* Line 130 on its own: behold entered after a start that launched every
\* app, with the manifest's interval drawn from IntervalInputs.
IntervalInit ==
    /\ HANDBRAKE = FALSE
    /\ delivered = 0
    /\ pc = "interval"
    /\ i = 1
    /\ appRestart = [h \in Apps |-> "none"]
    /\ cfgInterval \in IntervalInputs
    /\ sleepMs = NoValue
    /\ command = [h \in Apps |-> h]
    /\ child = [h \in Apps |-> h]
    /\ locks = {}
    /\ polled = [h \in Apps |-> "unpolled"]
    /\ printed = [h \in Apps |-> -1]
    /\ status = [p \in Pids |-> IF p \in Apps THEN "alive" ELSE "unborn"]
    /\ owner = [p \in Pids |-> IF p \in Apps THEN p ELSE 0]
    /\ nextPid = NumApps + 1
    /\ termReq = {}
    /\ passesAfterFlag = 0

IntervalNext == BeholdInterval

IntervalSpec == IntervalInit /\ [][IntervalNext]_vars

\* The main thread keeps being scheduled: sleep returns, uncontended locks
\* are acquired, system calls return.
LiveSpec == Init /\ [][Next]_vars /\ WF_vars(Main)

----------------------------------------------------------------------------
\* Properties.

Failed == {"exitErr", "signaled"}

\* The main thread takes the step that polls handle h.
PollStepOf(h) == pc = "poll" /\ i = h /\ <<pc, i>>' # <<pc, i>>

\* C1: for a handle whose restart flag is true or unset, the poll step that
\* detects a non-zero exit or a signal kill makes exactly one spawn attempt
\* for it: either one new process is created and becomes the handle's child,
\* or the attempt fails and the run ends with the error; until the handle is
\* polled again it holds that child.
C1_RestartOnFailure ==
    /\ [][\A h \in Apps :
            (PollStepOf(h) /\ polled'[h] \in Failed
                /\ appRestart[h] \in {"true", "none"}) =>
                \/ /\ pc' # "error"
                   /\ nextPid' = nextPid + 1
                   /\ child'[h] = nextPid
                   /\ owner'[nextPid] = h
                   /\ status'[nextPid] = "alive"
                \/ /\ pc' = "error"
                   /\ nextPid' = nextPid
                   /\ child'[h] = 0]_vars
    /\ [](\A h \in Apps :
            (polled[h] \in Failed /\ appRestart[h] \in {"true", "none"}) =>
                IF pc = "error" /\ i = h
                   THEN child[h] = 0
                   ELSE child[h] # 0 /\ owner[child[h]] = h)

C1_Witness ==
    \E h \in Apps :
        /\ appRestart[h] = "none"
        /\ polled[h] = "signaled"
        /\ pc \in {"lock", "check"}
        /\ child[h] > NumApps /\ status[child[h]] = "alive"

\* C2: whatever the restart flag, the poll step that detects exit code 0
\* spawns nothing and clears the handle's child, and the child is None in
\* every later state.
C2_CleanExitNoRestart ==
    /\ [][\A h \in Apps :
            (PollStepOf(h) /\ polled'[h] = "exit0") =>
                (nextPid' = nextPid /\ child'[h] = 0 /\ pc' # "error")]_vars
    /\ [](\A h \in Apps : polled[h] = "exit0" => child[h] = 0)

\* A later cycle reaches the handle and finds its child None.
C2_Witness ==
    \E h \in Apps :
        /\ appRestart[h] = "true"
        /\ polled[h] = "exit0"
        /\ pc = "poll" /\ i = h
        /\ child[h] = 0

\* C3: for a handle with restart = false, the poll step that detects a
\* non-zero exit or a signal kill spawns nothing and clears the handle's
\* child, and the child is None in every later state.
C3_NoRestartWhenDisabled ==
    /\ [][\A h \in Apps :
            (PollStepOf(h) /\ polled'[h] \in Failed
                /\ appRestart[h] = "false") =>
                (nextPid' = nextPid /\ child'[h] = 0 /\ pc' # "error")]_vars
    /\ [](\A h \in Apps :
            (polled[h] \in Failed /\ appRestart[h] = "false") => child[h] = 0)

C3_Witness ==
    \E h \in Apps :
        /\ appRestart[h] = "false"
        /\ polled[h] = "exitErr"
        /\ pc = "poll" /\ i = h
        /\ child[h] = 0

\* C4: when the load at the top of a cycle returns true the loop enters the
\* shutdown pass; when the pass is over every handle that holds a child has
\* been sent a kill, and from the observation on no process is spawned and
\* no handle's child changes.
C4_ShutdownPass ==
    /\ [](pc = "done" =>
            \A h \in Apps : child[h] # 0 =>
                child[h] \in termReq /\ status[child[h]] # "alive")
    /\ [][(pc = "check" /\ HANDBRAKE /\ pc' # pc) => pc' = "klock"]_vars
    /\ [][(pc \in KillPcs \cup {"done"}) =>
            (pc' \in KillPcs \cup {"done"} /\ child' = child /\
             nextPid' = nextPid /\ owner' = owner)]_vars

C4_Witness ==
    /\ pc = "done"
    /\ \A h \in Apps : child[h] # 0 /\ child[h] \in termReq
    /\ \E h \in Apps : child[h] > NumApps

\* C5: in every reachable state at most one live process exists per handle,
\* a live process of a handle is the one the handle's child refers to, and a
\* process is spawned for a handle only when none of its earlier processes
\* is alive and its child is None or was found exited in the same step.
C5_AtMostOneLive ==
    /\ [](\A h \in Apps :
            /\ Cardinality(LiveOf(h)) <= 1
            /\ LiveOf(h) \subseteq {child[h]} \ {0})
    /\ [][(nextPid' # nextPid) =>
            /\ LiveOf(owner'[nextPid]) = {}
            /\ \A p \in Pids : owner[p] = owner'[nextPid] =>
                    status'[p] = "reaped"]_vars

C5_Witness ==
    \E h \in Apps :
        /\ child[h] > NumApps
        /\ status[child[h]] = "alive"
        /\ \E p \in Pids : p # child[h] /\ owner[p] = h /\ status[p] = "reaped"

\* Every handle that holds a child has been sent a kill and its process is
\* not alive.
AllLiveTerminated ==
    \A h \in Apps : child[h] # 0 =>
        child[h] \in termReq /\ status[child[h]] # "alive"

C7_FlagReadAtTopOnly ==
    /\ [](passesAfterFlag <= 1)
    /\ [][(pc \in PollPcs \cup {"sleep"}) =>
            (pc' \notin KillPcs \cup {"done"})]_vars
    /\ [][(pc' = "klock" /\ pc \notin KillPcs) =>
            (pc = "check" /\ HANDBRAKE)]_vars
    /\ [][(pc = "check" /\ HANDBRAKE /\ pc' # pc) => pc' = "klock"]_vars

C7_Witness ==
    /\ passesAfterFlag = 1
    /\ pc = "ksend"
    /\ \E h \in Apps : child[h] > NumApps

\* C8: a step of the signal handler sets the flag and leaves every handle's
\* child and command, the held locks, the kills sent, the processes and the
\* position of the main thread unchanged.
C8_SignalFrame ==
    [][(delivered' # delivered) =>
        (HANDBRAKE' /\ UNCHANGED <<child, command, locks, termReq, status,
                                   owner, nextPid, pc, i, polled, printed,
                                   appRestart, cfgInterval, sleepMs>>)]_vars

\* The flag was set in the middle of a poll pass, with locks held.
C8_Witness ==
    /\ delivered > 0
    /\ HANDBRAKE
    /\ passesAfterFlag = 0
    /\ pc = "poll"
    /\ locks # {}
    /\ \E h \in Apps : child[h] # 0 /\ status[child[h]] = "alive"

\* C9: the flag starts false, becomes true only in a step of the signal
\* handler, and once true stays true, also when further signals arrive.
C9_FlagSetOnce ==
    /\ ~HANDBRAKE
    /\ [][HANDBRAKE => HANDBRAKE']_vars
    /\ [][(HANDBRAKE' # HANDBRAKE) =>
            (delivered' = delivered + 1 /\ UNCHANGED loopVars)]_vars
    /\ [](HANDBRAKE <=> delivered > 0)

C9_Witness ==
    /\ delivered >= 2
    /\ HANDBRAKE
    /\ pc = "done"

\* C10: in the shutdown pass a handle whose child is None is sent nothing:
\* the step over it changes no process, no kill set and no child, does not
\* end the run with an error, and the pass still kills every child held.
C10_TerminateDeadIsNoop ==
    /\ [][(pc = "ksend" /\ child[i] = 0 /\ pc' # pc) =>
            (termReq' = termReq /\ status' = status /\ child' = child /\
             pc' \in {"klock", "done"})]_vars
    /\ [](pc = "done" => AllLiveTerminated)

C10_Witness ==
    /\ pc = "done"
    /\ child[1] = 0
    /\ polled[1] \in {"exit0", "exitErr"}
    /\ child[2] # 0 /\ child[2] \in termReq

\* The poll step of handle h found its process exited.
ExitDetected(h) == PollStepOf(h) /\ child[h] # 0 /\ polled'[h] \in ExitKinds

\* C11: when the re-spawn attempt of a restart fails (the poll step detects a
\* failure of a handle whose restart flag is true or unset and creates no
\* process), behold returns the error at once: the run ends at that handle
\* with its child cleared, the child, last poll result and last status line
\* of every other handle are unchanged, no kill is sent, no process other
\* than the reaped one changes, and nothing happens afterwards.
C11_RespawnFailureIsFatal ==
    /\ [][\A h \in Apps :
            (PollStepOf(h) /\ polled'[h] \in Failed
                /\ appRestart[h] \in {"true", "none"}
                /\ nextPid' = nextPid) =>
                /\ pc' = "error" /\ i' = h
                /\ child'[h] = 0
                /\ \A g \in Apps \ {h} :
                        /\ child'[g] = child[g]
                        /\ polled'[g] = polled[g]
                        /\ printed'[g] = printed[g]
                /\ termReq' = termReq
                /\ \A p \in Pids \ {child[h]} : status'[p] = status[p]]_vars
    /\ [][(pc = "error") =>
            UNCHANGED <<pc, i, child, polled, printed, locks, status, owner,
                        nextPid, termReq>>]_vars

\* The re-spawn for handle 1 failed in the first cycle: handle 2 was not
\* polled, still holds its live child, and was sent nothing.
C11_Witness ==
    /\ pc = "error" /\ i = 1
    /\ polled[1] \in Failed /\ child[1] = 0
    /\ polled[2] = "unpolled"
    /\ child[2] # 0 /\ status[child[2]] = "alive" /\ child[2] \notin termReq

\* start returned Err: some app was never launched.
StartFailed == pc = "error" /\ \E h \in Apps : command[h] = 0

\* C12: when a launch fails in start the run ends there: no handle was or
\* is ever polled, locked, reported or sent a kill, the interval is never
\* computed; and behold runs only when every app was launched.
C12_StartFailureAborts ==
    /\ [](StartFailed =>
            /\ \A h \in Apps : polled[h] = "unpolled" /\ printed[h] = -1
            /\ termReq = {}
            /\ locks = {}
            /\ passesAfterFlag = 0
            /\ sleepMs = NoValue)
    /\ [](pc \notin {"start", "error"} =>
            \A h \in Apps : command[h] = h /\ owner[h] = h)
    /\ [][StartFailed => UNCHANGED <<pc, i, child, polled, printed, locks,
                                     status, owner, nextPid, termReq>>]_vars

C12_Witness ==
    /\ StartFailed
    /\ i = NumApps
    /\ \A h \in Apps : h < i => child[h] = h

\* C13 as stated: after start aborted because a launch failed, no process
\* launched for an earlier app is running.
C13_Original ==
    StartFailed => \A p \in Pids : status[p] # "alive"

\* C14 as stated: a poll step that detects an exit, of any kind and with any
\* restart flag, goes on to the next handle or the next cycle.
C14_Original ==
    [][\A h \in Apps : ExitDetected(h) => pc' \in {"lock", "check"}]_vars

\* C14 amended: a poll step that detects an exit goes on to the next handle
\* or, after the last handle, to the next cycle, except when the exit is a
\* non-zero exit or a signal kill of a handle whose restart flag is true or
\* unset and the re-spawn attempt fails: then behold returns that error.
C14_ExitContainedUnlessRespawnFails ==
    [][\A h \in Apps : ExitDetected(h) =>
            \/ pc' = "lock" /\ i' = h + 1
            \/ pc' = "check" /\ h = NumApps
            \/ /\ pc' = "error"
               /\ polled'[h] \in Failed
               /\ appRestart[h] \in {"true", "none"}
               /\ nextPid' = nextPid]_vars

\* Both handles were found exited in one pass and the next cycle began.
C14_Witness ==
    /\ pc = "sleep"
    /\ polled[1] = "signaled"
    /\ polled[2] = "exit0"
    /\ child[2] = 0

\* C15 as stated: the status line a poll step prints for a handle tells the
\* handle's state after the step: "running as PID" with the pid of the child
\* the handle then holds, "not running" exactly when it holds none.
C15_Original ==
    [][\A h \in Apps :
        (PollStepOf(h) /\ pc' # "error") => printed'[h] = child'[h]]_vars

\* C16 as stated: the sleep duration is 5000 ms when the manifest gives no
\* interval, and otherwise exactly interval * 1000 for every u64 interval,
\* also when that product exceeds the 64-bit range.
C16_Original ==
    (pc # "interval") =>
        /\ pc = "check"
        /\ IF cfgInterval = NoValue
              THEN sleepMs = ToU64(DefaultIntervalMs)
              ELSE MulWide(cfgInterval, MsPerSec) = sleepMs \o <<0>>

\* C17: the main thread holds locks of one handle at a time, the handle it
\* is working on, and none between two handles, so the lock it takes next
\* is free and it always has a step to take until the run ends; the signal
\* handler changes no lock; a child is replaced or cleared only under its
\* handle's child lock (or by start, before the handle is shared).
C17_OneHandleLockedAtATime ==
    /\ [](\A l \in locks : l[1] = i /\ pc \in {"poll", "ksend"})
    /\ [](pc \in {"lock", "klock"} => locks = {})
    /\ [](pc \notin {"done", "error", "panic"} => ENABLED Main)
    /\ [][(delivered' # delivered) => locks' = locks]_vars
    /\ [][\A h \in Apps : (child'[h] # child[h]) =>
            (pc = "start" \/ <<h, "child">> \in locks)]_vars

C17_Witness ==
    /\ pc = "poll" /\ i = 2
    /\ locks = {<<2, "child">>, <<2, "command">>}
    /\ delivered > 0
    /\ polled[1] \in Failed /\ child[1] > NumApps

\* C18: the poll step of a handle changes no other handle's child, command
\* or processes; when it finds the process alive it leaves the handle's own
\* child, that process and the set of processes unchanged.
C18_PollTouchesOneHandle ==
    [][\A h \in Apps : PollStepOf(h) =>
        /\ \A g \in Apps \ {h} :
              /\ child'[g] = child[g]
              /\ command'[g] = command[g]
              /\ \A p \in Pids : owner[p] = g =>
                    status'[p] = status[p] /\ owner'[p] = g
        /\ (child[h] # 0 /\ polled'[h] = "alive") =>
              /\ child'[h] = child[h]
              /\ status' = status
              /\ nextPid' = nextPid]_vars

\* After a cycle handle 1 was re-spawned with a new pid and handle 2, found
\* alive, still holds its first process.
C18_Witness ==
    /\ pc = "check"
    /\ polled[1] = "exitErr" /\ child[1] > NumApps
    /\ polled[2] = "alive" /\ child[2] = 2 /\ status[2] = "alive"
    /\ printed[2] = 2

AllUnpolled == \A h \in Apps : polled[h] = "unpolled"

\* C19: with the flag set before the first load of the loop, start still
\* launches every app (or fails on a launch), the loop then goes from its
\* first load straight into the shutdown pass without sleeping, and that
\* pass sends a kill to the first process of every app; no handle was
\* polled, reported or re-spawned.
C19_SignalDuringStart ==
    /\ [][(HANDBRAKE /\ AllUnpolled /\ pc \in {"start", "interval", "check"}) =>
            pc' \in {"start", "interval", "check", "klock", "error", "panic"}]_vars
    /\ [][(HANDBRAKE /\ pc = "start" /\ pc' \notin {"start", "error"}) =>
            \A h \in Apps : command'[h] = h /\ child'[h] = h /\ owner'[h] = h]_vars
    /\ []((AllUnpolled /\ pc \in KillPcs \cup {"done"}) =>
            /\ passesAfterFlag = 0
            /\ nextPid = NumApps + 1
            /\ \A h \in Apps : child[h] = h /\ printed[h] = -1)
    /\ []((AllUnpolled /\ pc = "done") => \A h \in Apps : child[h] \in termReq)

C19_Witness ==
    /\ pc = "done"
    /\ AllUnpolled
    /\ delivered > 0
    /\ \A h \in Apps : child[h] = h /\ h \in termReq

\* C20: at every point a live process launched by the supervisor is the
\* child of its handle, and when the loop stops after the shutdown pass every
\* process ever launched was either reaped by a poll or sent a kill.
C20_NoOrphanAtShutdown ==
    /\ [](\A p \in Pids : status[p] = "alive" => child[owner[p]] = p)
    /\ [](pc = "done" =>
            \A p \in Pids : status[p] # "unborn" =>
                status[p] = "reaped" \/ p \in termReq)

\* The last pass began with the flag already set, re-spawned a handle, and
\* the shutdown pass killed the new process.
C20_Witness ==
    /\ pc = "done"
    /\ passesAfterFlag = 1
    /\ \E h \in Apps :
          /\ polled[h] \in Failed
          /\ child[h] > NumApps
          /\ child[h] \in termReq

====
